---- MODULE Spec2Model ----
\* Model of the throttled task dispatcher RequestQueue
\* (src/utils/RequestQueue.mjs) under the JavaScript run-to-completion
\* scheduler: every action is one synchronous segment of the code, from the
\* point where it is entered to the next await.
EXTENDS Integers, Sequences, FiniteSets, TLC

\* ---------------------------------------------------------------- bounds
\* number of add() calls of a run
MaxTasks == 3
\* last reading of the clock (ms)
MaxClock == 2400
\* amounts by which Date.now() advances between two segments (ms)
TickSteps == {400, 600}
\* limits the dispatcher may be constructed with (the constructor takes any)
MaxConcurrentVals == {-1, 0, 1, 2}
RpsVals == {-1, 0, 1, 2}

\* number of show ids of one batch of the scraper (batchSize = 100 in
\* src/index.mjs, scaled to the number of add() calls of a run)
BatchSize == 2

\* the rolling window of the rate limiter: "now - 1000", "+ 1000"
Window == 1000

Entries == 1..MaxTasks

VARIABLES
    maxConcurrent,      \* this.maxConcurrent
    requestsPerSecond,  \* this.requestsPerSecond
    activeRequests,     \* this.activeRequests
    queue,              \* this.queue: sequence of {fn, resolve, reject}
    requestTimestamps,  \* this.requestTimestamps
    now,                \* Date.now()
    pc,                 \* position of the process() invocation of each entry
    frame,              \* locals {fn, resolve, reject} of that invocation
    timer,              \* expiry of the setTimeout of waitForRateLimit
    ready,              \* microtasks: continuations of "await waitForRateLimit()"
    taskOutcome,        \* settlement of the promise returned by fn()
    future,             \* the promise add() returned
    submitted,          \* number of add() calls so far
    dequeued,           \* history: entries in the order queue.shift() took them
    started,            \* history: entries in the order fn() was invoked
    grants,             \* history: timestamps pushed, in the order pushed
    invocations,        \* history: calls of fn per task function
    settlements,        \* history: calls of resolve / reject per future
    chain               \* the caller's promise chain on each future (index.mjs)

vars == <<maxConcurrent, requestsPerSecond, activeRequests, queue,
          requestTimestamps, now, pc, frame, timer, ready, taskOutcome,
          future, submitted, dequeued, started, grants, invocations,
          settlements, chain>>

\* ------------------------------------------------------ values of the model
NoFrame == [fn |-> 0, promise |-> 0]
Pending == [state |-> "pending", by |-> 0]
NoOutcome == [kind |-> "none", by |-> 0]
\* an opaque task either fulfils with its own value or fails with its own error
Kinds == {"value", "error"}

\* ------------------------------------------------- waitForRateLimit (12-30)
\* line 17: filter(ts => ts > oneSecondAgo)
PruneKeepsBoundary(log, t) == SelectSeq(log, LAMBDA ts : ts >= t - Window)

Prune(log, t) == SelectSeq(log, LAMBDA ts : ts > t - Window)

\* lines 21-22: oldestTimestamp + 1000 - now; requestTimestamps[0] of an empty
\* array is undefined and the sum is NaN
WaitTime(log, t) ==
    IF Len(log) = 0 THEN [nan |-> TRUE, ms |-> 0]
    ELSE [nan |-> FALSE, ms |-> log[1] + Window - t]

\* line 20
LimitReachedOffByOne(log, rps) == Len(log) > rps

LimitReached(log, rps) == Len(log) >= rps

\* line 23: NaN > 0 is false
PositiveUnlessNotPositive(w) == w.nan \/ w.ms > 0

Positive(w) == ~w.nan /\ w.ms > 0

\* lines 13-29, the synchronous part of one call at clock reading t: either a
\* timer is set (line 24) or t is pushed and the call returns (line 29)
WaitForRateLimit(log, t, rps) ==
    LET pruned == Prune(log, t)
        w == WaitTime(pruned, t)
    IN IF LimitReached(pruned, rps) /\ Positive(w)
       THEN [log |-> pruned, granted |-> FALSE, wake |-> t + w.ms]
       ELSE [log |-> Append(pruned, t), granted |-> TRUE, wake |-> 0]

\* line 25: after the timer the call starts over, "return this.waitForRateLimit()"
RecheckAssumesClearance(log, t, rps) ==
    [log |-> Append(Prune(log, t), t), granted |-> TRUE, wake |-> 0]

Recheck(log, t, rps) == WaitForRateLimit(log, t, rps)

\* ------------------------------------------------------------ process (39-57)
\* the part of the state process() reads and writes
Dispatcher ==
    [activeRequests |-> activeRequests, queue |-> queue,
     requestTimestamps |-> requestTimestamps, pc |-> pc, frame |-> frame,
     timer |-> timer, ready |-> ready, dequeued |-> dequeued,
     grants |-> grants]

\* line 40
SaturatedOffByOne(d) == d.activeRequests > maxConcurrent \/ Len(d.queue) = 0

Saturated(d) == d.activeRequests >= maxConcurrent \/ Len(d.queue) = 0

\* line 45: queue.shift() returns the first entry and removes it
DequeueLast(q) == [entry |-> q[Len(q)], rest |-> SubSeq(q, 1, Len(q) - 1)]

DequeueKeep(q) == [entry |-> Head(q), rest |-> q]

Dequeue(q) == [entry |-> Head(q), rest |-> Tail(q)]

\* lines 40-48: the guard, the increment, the shift and the synchronous part of
\* waitForRateLimit
Process(d) ==
    IF Saturated(d) THEN d
    ELSE LET entry == Dequeue(d.queue).entry
             p == entry.promise
             r == WaitForRateLimit(d.requestTimestamps, now, requestsPerSecond)
         IN [activeRequests |-> d.activeRequests + 1,
             queue |-> Dequeue(d.queue).rest,
             requestTimestamps |-> r.log,
             pc |-> [d.pc EXCEPT ![p] = IF r.granted THEN "cleared" ELSE "waiting"],
             frame |-> [d.frame EXCEPT ![p] = entry],
             timer |-> [d.timer EXCEPT ![p] = r.wake],
             ready |-> IF r.granted THEN Append(d.ready, p) ELSE d.ready,
             dequeued |-> Append(d.dequeued, p),
             grants |-> IF r.granted THEN Append(d.grants, now) ELSE d.grants]

Install(d) ==
    /\ activeRequests' = d.activeRequests
    /\ queue' = d.queue
    /\ requestTimestamps' = d.requestTimestamps
    /\ pc' = d.pc
    /\ frame' = d.frame
    /\ timer' = d.timer
    /\ ready' = d.ready
    /\ dequeued' = d.dequeued
    /\ grants' = d.grants

\* lines 50 and 52: resolve(result) on a value, reject(error) on an error
ForwardAsValue(o) == [state |-> "resolved", by |-> o.by]

Forward(o) ==
    [state |-> IF o.kind = "value" THEN "resolved" ELSE "rejected", by |-> o.by]

\* line 54
ReleaseFreesWindowSlot(d) ==
    [d EXCEPT !.activeRequests = d.activeRequests - 1,
              !.requestTimestamps = IF d.requestTimestamps = <<>> THEN <<>>
                                    ELSE Tail(d.requestTimestamps)]

ReleaseTwice(d) == [d EXCEPT !.activeRequests = d.activeRequests - 2]

Release(d) == [d EXCEPT !.activeRequests = d.activeRequests - 1]

\* lines 53-56: finally releases the slot and calls process()
FinishNoRetrigger(d, p) == Release([d EXCEPT !.pc[p] = "done"])

Finish(d, p) == Process(Release([d EXCEPT !.pc[p] = "done"]))

\* lines 47-56: the dispatcher after the task of p has ended with outcome o;
\* the finally block runs after the try block and after the catch block alike
AfterTaskCleanupInTry(d, p, o) ==
    IF o.kind = "value" THEN Finish(d, p) ELSE [d EXCEPT !.pc[p] = "done"]

AfterTask(d, p, o) == Finish(d, p)

\* ------------------------------------------------------------------- Init
Init ==
    /\ maxConcurrent \in MaxConcurrentVals
    /\ requestsPerSecond \in RpsVals
    /\ activeRequests = 0
    /\ queue = <<>>
    /\ requestTimestamps = <<>>
    /\ now = 0
    /\ pc = [p \in Entries |-> "none"]
    /\ frame = [p \in Entries |-> NoFrame]
    /\ timer = [p \in Entries |-> 0]
    /\ ready = <<>>
    /\ taskOutcome = [p \in Entries |-> NoOutcome]
    /\ future = [p \in Entries |-> Pending]
    /\ submitted = 0
    /\ dequeued = <<>>
    /\ started = <<>>
    /\ grants = <<>>
    /\ invocations = [f \in Entries |-> 0]
    /\ settlements = [p \in Entries |-> 0]
    /\ chain = [p \in Entries |-> "idle"]

\* ---------------------------------------------------------------- actions
\* add(requestFn), lines 32-37: the k-th call submits task function k and
\* returns promise k
Add ==
    /\ submitted < MaxTasks
    /\ LET p == submitted + 1
           d == [Dispatcher EXCEPT
                    !.queue = Append(queue, [fn |-> p, promise |-> p]),
                    !.pc[p] = "queued"]
       IN Install(Process(d))
    /\ submitted' = submitted + 1
    /\ UNCHANGED <<chain, maxConcurrent, requestsPerSecond, now, taskOutcome, future,
                   started, invocations, settlements>>

\* the clock advances between two macrotasks (a burst of microtasks takes no
\* measurable time)
Tick ==
    /\ ready = <<>>
    /\ \E d \in TickSteps :
          /\ now + d <= MaxClock
          /\ now' = now + d
    /\ UNCHANGED <<chain, maxConcurrent, requestsPerSecond, activeRequests, queue,
                   requestTimestamps, pc, frame, timer, ready, taskOutcome,
                   future, submitted, dequeued, started, grants, invocations,
                   settlements>>

\* lines 24-25: an expired timer resumes its call, which checks again. Timers
\* are macrotasks: they run when no microtask is left, in no fixed order among
\* the expired ones.
TimerWake ==
    /\ ready = <<>>
    /\ \E p \in Entries :
          /\ pc[p] = "waiting"
          /\ now >= timer[p]
          /\ LET r == Recheck(requestTimestamps, now, requestsPerSecond)
             IN /\ requestTimestamps' = r.log
                /\ pc' = [pc EXCEPT ![p] = IF r.granted THEN "cleared" ELSE "waiting"]
                /\ timer' = [timer EXCEPT ![p] = r.wake]
                /\ ready' = IF r.granted THEN <<p>> ELSE ready
                /\ grants' = IF r.granted THEN Append(grants, now) ELSE grants
    /\ UNCHANGED <<chain, maxConcurrent, requestsPerSecond, activeRequests, queue, now,
                   frame, taskOutcome, future, submitted, dequeued, started,
                   invocations, settlements>>

\* line 49, fn() returns a promise: the invocation of process() awaits it
InvokeAsync ==
    /\ ready # <<>>
    /\ LET p == Head(ready)
       IN /\ pc' = [pc EXCEPT ![p] = "running"]
          /\ started' = Append(started, p)
          /\ invocations' = [invocations EXCEPT ![frame[p].fn] = @ + 1]
    /\ ready' = Tail(ready)
    /\ UNCHANGED <<chain, maxConcurrent, requestsPerSecond, activeRequests, queue,
                   requestTimestamps, now, frame, timer, taskOutcome, future,
                   submitted, dequeued, grants, settlements>>

\* lines 49, 51-55, fn() throws synchronously: catch rejects, finally releases
InvokeThrow ==
    /\ ready # <<>>
    /\ LET p == Head(ready)
           o == [kind |-> "error", by |-> frame[p].fn]
           d == [Dispatcher EXCEPT !.ready = Tail(ready)]
       IN /\ started' = Append(started, p)
          /\ invocations' = [invocations EXCEPT ![frame[p].fn] = @ + 1]
          /\ taskOutcome' = [taskOutcome EXCEPT ![p] = o]
          /\ future' = [future EXCEPT ![frame[p].promise] = Forward(o)]
          /\ settlements' = [settlements EXCEPT ![frame[p].promise] = @ + 1]
          /\ Install(AfterTask(d, p, o))
    /\ UNCHANGED <<chain, maxConcurrent, requestsPerSecond, now, submitted>>

\* the promise fn() returned settles (the task is opaque: either way)
TaskSettles ==
    /\ \E p \in Entries, k \in Kinds :
          /\ pc[p] = "running"
          /\ pc' = [pc EXCEPT ![p] = "returned"]
          /\ taskOutcome' = [taskOutcome EXCEPT ![p] = [kind |-> k, by |-> frame[p].fn]]
    /\ UNCHANGED <<chain, maxConcurrent, requestsPerSecond, activeRequests, queue,
                   requestTimestamps, now, frame, timer, ready, future,
                   submitted, dequeued, started, grants, invocations,
                   settlements>>

\* lines 49-55 after the await: resolve(result) or reject(error), then finally
Settle ==
    /\ \E p \in Entries :
          /\ pc[p] = "returned"
          /\ future' = [future EXCEPT ![frame[p].promise] = Forward(taskOutcome[p])]
          /\ settlements' = [settlements EXCEPT ![frame[p].promise] = @ + 1]
          /\ Install(AfterTask(Dispatcher, p, taskOutcome[p]))
    /\ UNCHANGED <<chain, maxConcurrent, requestsPerSecond, now, taskOutcome, submitted,
                   started, invocations>>

Next ==
    \/ Add
    \/ Tick
    \/ TimerWake
    \/ InvokeAsync
    \/ InvokeThrow
    \/ TaskSettles
    \/ Settle

Spec == Init /\ [][Next]_vars

\* ------------------------------------------------------------ fair runs
\* entries dequeued and suspended in waitForRateLimit
Suspended == {p \in Entries : pc[p] = "waiting"}

\* timers that have expired and whose callback has not run yet
Overdue == {p \in Suspended : now >= timer[p]}

\* room on the clock for every wait a run can need after the first window: a
\* wait ends at most one clock step after the oldest timestamp expires
MaxStep == CHOOSE m \in TickSteps : \A d \in TickSteps : d <= m

Horizon == Window + MaxTasks * (Window + MaxStep)

\* the clock of a run whose event loop is not starved: an expired timer runs
\* before the clock is read again; after the first window, time is followed
\* only while some entry waits for it
PromptTick ==
    /\ ready = <<>>
    /\ Overdue = {}
    /\ \E d \in TickSteps :
          /\ \/ now + d <= Window
             \/ Suspended # {} /\ now + d <= Horizon
          /\ now' = now + d
    /\ UNCHANGED <<chain, maxConcurrent, requestsPerSecond, activeRequests, queue,
                   requestTimestamps, pc, frame, timer, ready, taskOutcome,
                   future, submitted, dequeued, started, grants, invocations,
                   settlements>>

LiveNext ==
    \/ Add
    \/ PromptTick
    \/ TimerWake
    \/ InvokeAsync
    \/ InvokeThrow
    \/ TaskSettles
    \/ Settle

\* every microtask and every expired timer runs, every invoked task settles,
\* the clock advances; add() is called when the caller likes
\* the limits the dispatcher is specified for
LiveInit == Init /\ maxConcurrent >= 1 /\ requestsPerSecond >= 1

LiveSpec ==
    /\ LiveInit
    /\ [][LiveNext]_vars
    /\ WF_vars(PromptTick)
    /\ WF_vars(TimerWake)
    /\ WF_vars(InvokeAsync \/ InvokeThrow)
    /\ WF_vars(TaskSettles)
    /\ WF_vars(Settle)

\* ------------------------------------------------- an endless stream of tasks
\* A caller that keeps submitting, in a finite state space. The code reads the
\* clock only in differences (ts > now - 1000, oldest + 1000 - now, the timer
\* duration), so time passing by d is the same as every stored time moving
\* back by d with now kept; a timestamp at or before now - 1000 is dropped by
\* the next filter whatever its value, an expired timer is expired whatever
\* its value.
Earlier(t, d, floor) == IF t - d < floor THEN floor ELSE t - d

Elapse ==
    /\ ready = <<>>
    /\ Overdue = {}
    /\ \E d \in TickSteps :
          /\ requestTimestamps' =
                [i \in 1..Len(requestTimestamps) |->
                    Earlier(requestTimestamps[i], d, now - Window)]
          /\ timer' = [p \in Entries |-> Earlier(timer[p], d, now)]
          /\ grants' = [i \in 1..Len(grants) |-> Earlier(grants[i], d, now - Window)]
    /\ UNCHANGED <<chain, maxConcurrent, requestsPerSecond, activeRequests, queue,
                   now, pc, frame, ready, taskOutcome, future, submitted,
                   dequeued, started, invocations, settlements>>

\* the entry that takes the place of entry q once entry p is forgotten
Successor(p, q) == IF q < p THEN q ELSE q + 1

Renamed(p, x) == IF x > p THEN x - 1 ELSE x

Shifted(f, p, last) ==
    [q \in Entries |-> IF Successor(p, q) \in Entries THEN f[Successor(p, q)] ELSE last]

\* the caller lets go of a settled future: its entry is forgotten, the later
\* entries are renumbered and the next add() call is a new entry. No waiting
\* entry is renumbered, and the histories start over.
Forget ==
    /\ \E p \in Entries :
          /\ pc[p] = "done"
          /\ \A q \in Entries : q > p => pc[q] # "waiting"
          /\ pc' = Shifted(pc, p, "none")
          /\ timer' = Shifted(timer, p, 0)
          /\ invocations' = Shifted(invocations, p, 0)
          /\ settlements' = Shifted(settlements, p, 0)
          /\ frame' = Shifted([q \in Entries |->
                                 [fn |-> Renamed(p, frame[q].fn),
                                  promise |-> Renamed(p, frame[q].promise)]],
                              p, NoFrame)
          /\ taskOutcome' = Shifted([q \in Entries |->
                                 [kind |-> taskOutcome[q].kind,
                                  by |-> Renamed(p, taskOutcome[q].by)]],
                              p, NoOutcome)
          /\ future' = Shifted([q \in Entries |->
                                 [state |-> future[q].state,
                                  by |-> Renamed(p, future[q].by)]],
                              p, Pending)
          /\ queue' = [i \in 1..Len(queue) |->
                          [fn |-> Renamed(p, queue[i].fn),
                           promise |-> Renamed(p, queue[i].promise)]]
          /\ ready' = [i \in 1..Len(ready) |-> Renamed(p, ready[i])]
    /\ submitted' = submitted - 1
    /\ dequeued' = <<>>
    /\ started' = <<>>
    /\ grants' = <<>>
    /\ UNCHANGED <<chain, maxConcurrent, requestsPerSecond, activeRequests,
                   requestTimestamps, now>>

StreamNext ==
    \/ Add
    \/ Elapse
    \/ Forget
    \/ TimerWake
    \/ InvokeAsync
    \/ InvokeThrow
    \/ TaskSettles
    \/ Settle

\* as LiveSpec: time passes, every expired timer and every microtask runs,
\* every invoked task settles; the caller adds and forgets when it likes
StreamSpec ==
    /\ LiveInit
    /\ [][StreamNext]_vars
    /\ WF_vars(Elapse)
    /\ WF_vars(TimerWake)
    /\ WF_vars(InvokeAsync \/ InvokeThrow)
    /\ WF_vars(TaskSettles)
    /\ WF_vars(Settle)

\* ------------------------------------------- the scraper driver (index.mjs)
\* main processes the show ids 1..MaxTasks (lastProcessedId = 0, maxId =
\* MaxTasks) in batches; the dispatcher is the module's requestQueue, built
\* with positive limits (line 11).
DriverInit == Init /\ maxConcurrent >= 1 /\ requestsPerSecond >= 1

\* line 127: Math.min(i + batchSize - 1, maxId)
BatchEnd(i) == IF i + BatchSize - 1 < MaxTasks THEN i + BatchSize - 1 ELSE MaxTasks

\* lines 70-71, 26: showIds.map calls add() for every id of the batch, in
\* order and in one synchronous segment
RECURSIVE SubmitAll(_, _, _)
SubmitAll(d, p, last) ==
    IF p > last THEN d
    ELSE SubmitAll(Process([d EXCEPT !.queue = Append(d.queue, [fn |-> p, promise |-> p]),
                                     !.pc[p] = "queued"]),
                   p + 1, last)

\* a promise of line 70 is fulfilled: with undefined after the save, with null
\* by the catch handler
Finished(p) == chain[p] \in {"saved", "null"}

\* lines 82 and 136: main goes on when Promise.all is fulfilled, that is when
\* every promise of the batch is
BatchDoneOnFirst == submitted = 0 \/ \E p \in 1..submitted : Finished(p)

BatchDone == \A p \in 1..submitted : Finished(p)

\* lines 126-136: the next batch is built and handed to processMultipleShows
ProcessMultipleShows ==
    /\ submitted < MaxTasks
    /\ BatchDone
    /\ LET i == submitted + 1
           last == BatchEnd(i)
       IN /\ Install(SubmitAll(Dispatcher, i, last))
          /\ chain' = [p \in Entries |->
                          IF i <= p /\ p <= last THEN "fetching" ELSE chain[p]]
          /\ submitted' = last
    /\ UNCHANGED <<maxConcurrent, requestsPerSecond, now, taskOutcome, future,
                   started, invocations, settlements>>

\* line 72: the fetch was fulfilled, saveShowToDatabase starts
ThenSave ==
    /\ \E p \in Entries :
          /\ chain[p] = "fetching"
          /\ future[p].state = "resolved"
          /\ chain' = [chain EXCEPT ![p] = "saving"]
    /\ UNCHANGED <<maxConcurrent, requestsPerSecond, activeRequests, queue,
                   requestTimestamps, now, pc, frame, timer, ready, taskOutcome,
                   future, submitted, dequeued, started, grants, invocations,
                   settlements>>

\* lines 73-79: the fetch was rejected, the catch handler returns null
CatchFetch ==
    /\ \E p \in Entries :
          /\ chain[p] = "fetching"
          /\ future[p].state = "rejected"
          /\ chain' = [chain EXCEPT ![p] = "null"]
    /\ UNCHANGED <<maxConcurrent, requestsPerSecond, activeRequests, queue,
                   requestTimestamps, now, pc, frame, timer, ready, taskOutcome,
                   future, submitted, dequeued, started, grants, invocations,
                   settlements>>

\* lines 50-66, 73-79: the save returns, or throws and the catch handler
\* returns null
SaveSettles ==
    /\ \E p \in Entries, k \in Kinds :
          /\ chain[p] = "saving"
          /\ chain' = [chain EXCEPT ![p] = IF k = "value" THEN "saved" ELSE "null"]
    /\ UNCHANGED <<maxConcurrent, requestsPerSecond, activeRequests, queue,
                   requestTimestamps, now, pc, frame, timer, ready, taskOutcome,
                   future, submitted, dequeued, started, grants, invocations,
                   settlements>>

\* the tasks of fetchShowData are async functions: they never throw
\* synchronously
DriverNext ==
    \/ ProcessMultipleShows
    \/ ThenSave
    \/ CatchFetch
    \/ SaveSettles
    \/ Tick
    \/ TimerWake
    \/ InvokeAsync
    \/ TaskSettles
    \/ Settle

DriverSpec == DriverInit /\ [][DriverNext]_vars

\* ------------------------------------------------------------ vocabulary
\* tasks whose function was invoked and whose promise has not settled
Executing == {p \in Entries : pc[p] = "running"}

\* clock readings of a run
Instants == {t \in 0..MaxClock : t % 100 = 0}

\* number of timestamps pushed in the trailing window (t - 1000, t]
StartsInWindow(t) ==
    Cardinality({i \in 1..Len(grants) : t - Window < grants[i] /\ grants[i] <= t})

\* s lists the entries in submission order, none overtaking an earlier one
InSubmissionOrder(s) ==
    \A j \in 1..Len(s) : \A a \in 1..(s[j] - 1) : \E i \in 1..(j - 1) : s[i] = a

Occurrences(s, p) == Cardinality({i \in 1..Len(s) : s[i] = p})

\* the state of an entry in the spec's state machine
Phase(p) ==
    CASE pc[p] = "none" -> "Unsubmitted"
      [] pc[p] = "queued" -> "Queued"
      [] pc[p] \in {"waiting", "cleared", "running", "returned"} -> "Dispatched"
      [] pc[p] = "done" /\ future[p].state = "resolved" -> "Succeeded"
      [] pc[p] = "done" /\ future[p].state = "rejected" -> "Failed"
      [] OTHER -> "Invalid"

PhaseSteps ==
    {<<"Unsubmitted", "Queued">>, <<"Unsubmitted", "Dispatched">>,
     <<"Queued", "Dispatched">>, <<"Dispatched", "Succeeded">>,
     <<"Dispatched", "Failed">>}

\* ----------------------------------------------------------------- claims
\* C1: with maxConcurrent >= 1, activeRequests stays within 0..maxConcurrent
\* and at most maxConcurrent task functions are invoked and not yet settled.
C1_ConcurrencyBound ==
    maxConcurrent >= 1 =>
        /\ 0 <= activeRequests
        /\ activeRequests <= maxConcurrent
        /\ Cardinality(Executing) <= maxConcurrent

C1_Witness ==
    /\ maxConcurrent = 2
    /\ activeRequests = 2
    /\ Cardinality(Executing) = 2
    /\ Len(queue) >= 1

\* C2: with requestsPerSecond >= 1, no trailing window (t - 1000, t] holds more
\* than requestsPerSecond logged starts, whoever is waiting; the i-th and the
\* (i + requestsPerSecond)-th start are at least 1000 ms apart.
C2_RateBound ==
    requestsPerSecond >= 1 =>
        /\ \A t \in Instants : StartsInWindow(t) <= requestsPerSecond
        /\ \A i \in 1..Len(grants) :
              i + requestsPerSecond <= Len(grants) =>
                  grants[i + requestsPerSecond] - grants[i] >= Window

C2_Witness ==
    /\ requestsPerSecond = 2
    /\ Len(grants) = 3
    /\ grants[3] - grants[1] = Window
    /\ StartsInWindow(now) = 2

\* C3: entries leave the queue in submission order.
C3_DequeueFifo == InSubmissionOrder(dequeued)

C3_Witness ==
    /\ maxConcurrent = 1
    /\ Len(dequeued) = 2
    /\ Len(queue) = 1
    /\ pc[1] = "done"

\* C4: task functions are invoked in submission order, also when several
\* entries are suspended in waitForRateLimit with timers expiring together.
C4_StartFifo ==
    (maxConcurrent >= 1 /\ requestsPerSecond >= 1) => InSubmissionOrder(started)

\* C5: an entry goes Queued -> Dispatched -> Succeeded | Failed and nothing
\* else; it is dequeued once, its function invoked at most once, its future
\* settled at most once.
C5_Lifecycle ==
    /\ [](\A p \in Entries :
            /\ Phase(p) # "Invalid"
            /\ Occurrences(dequeued, p) <= 1
            /\ Occurrences(started, p) <= 1
            /\ invocations[p] <= 1
            /\ settlements[p] <= 1
            /\ Phase(p) = "Queued" <=> \E i \in 1..Len(queue) : queue[i].promise = p)
    /\ [][\A p \in Entries :
            Phase(p)' # Phase(p) => <<Phase(p), Phase(p)'>> \in PhaseSteps]_vars

C5_Witness ==
    /\ maxConcurrent = 1
    /\ Phase(1) = "Failed"
    /\ Phase(2) = "Succeeded"
    /\ Phase(3) = "Dispatched"
    /\ Cardinality(Suspended) = 1


\* C6: with both limits >= 1, finitely many add() calls, an advancing clock and
\* every invoked task settling, every submitted task's future settles, and the
\* run ends with an empty queue and activeRequests = 0.
C6_Liveness ==
    (maxConcurrent >= 1 /\ requestsPerSecond >= 1) =>
        <>[](/\ \A p \in Entries : pc[p] # "none" => future[p].state # "pending"
             /\ queue = <<>>
             /\ activeRequests = 0)

C6_Witness ==
    /\ maxConcurrent = 1
    /\ requestsPerSecond = 1
    /\ submitted = MaxTasks
    /\ \A p \in Entries : future[p].state # "pending"
    /\ queue = <<>>
    /\ activeRequests = 0
    /\ now >= 2 * Window

\* a step settles the future of p
Settles(p) == future[p].state = "pending" /\ future'[p].state # "pending"

\* what the settlement of p does to the dispatcher and to the other entries,
\* whatever the outcome: one slot is released and offered to the head of the
\* queue, nothing else moves
SettlementEffect(p) ==
    /\ \A q \in Entries \ {p} :
          /\ future'[q] = future[q]
          /\ pc[q] = "queued" => pc'[q] \in {"queued", "waiting", "cleared"}
          /\ pc[q] # "queued" => pc'[q] = pc[q]
    /\ activeRequests' = IF queue = <<>> THEN activeRequests - 1 ELSE activeRequests
    /\ queue' = IF queue = <<>> THEN queue ELSE Tail(queue)
    /\ requestTimestamps' =
          IF queue = <<>> THEN requestTimestamps
          ELSE WaitForRateLimit(requestTimestamps, now, requestsPerSecond).log

\* C7: a failing task rejects its own future only; no other entry is dropped
\* or settled, and activeRequests, queue and log end as after a success.
C7_ErrorIsolation ==
    [][\A p \in Entries : Settles(p) => SettlementEffect(p)]_vars

C7_Witness ==
    /\ maxConcurrent = 1
    /\ future[1].state = "rejected"
    /\ future[2].state = "resolved"
    /\ pc[3] = "running"
    /\ activeRequests = 1

\* C8: the future of add(task) resolves with the value this task produced or
\* rejects with the error this task raised, never another task's outcome; the
\* task is invoked once (no retry) and a failure is not turned into a success.
C8_OutcomeForwarding ==
    \A p \in Entries :
        /\ invocations[p] <= 1
        /\ future[p].state # "pending" =>
              /\ invocations[p] = 1
              /\ taskOutcome[p].by = p
              /\ future[p].by = p
              /\ taskOutcome[p].kind = "value" <=> future[p].state = "resolved"
              /\ taskOutcome[p].kind = "error" <=> future[p].state = "rejected"

C8_Witness ==
    /\ future[1] = [state |-> "resolved", by |-> 1]
    /\ future[2] = [state |-> "rejected", by |-> 2]
    /\ future[3] = [state |-> "resolved", by |-> 3]
    /\ started = <<1, 3, 2>>

\* C9: with requestsPerSecond <= 0 no clearance is ever granted and no task
\* function is ever invoked.
C9_NoClearance ==
    requestsPerSecond <= 0 => grants = <<>> /\ started = <<>>

\* C10: a dispatcher whose maxConcurrent or requestsPerSecond is not positive
\* is rejected at construction, so none exists that has accepted an add().
C10_RejectedAtConstruction ==
    (maxConcurrent <= 0 \/ requestsPerSecond <= 0) => submitted = 0

\* entries dequeued whose invocation of process() has not reached finally
Dispatched == {p \in Entries : pc[p] \in {"waiting", "cleared", "running", "returned"}}

\* C11: activeRequests equals the number of tasks executing (invoked, not yet
\* settled); an entry dequeued and waiting for clearance is not counted.
C11_CounterIsExecuting == activeRequests = Cardinality(Executing)

\* C11 as amended: activeRequests counts every dequeued entry from the shift
\* to the finally block, those waiting for clearance included; the tasks
\* executing are among them.
C11_CounterIsDispatched ==
    /\ activeRequests = Cardinality(Dispatched)
    /\ Executing \subseteq Dispatched
    /\ activeRequests - Cardinality(Executing) =
          Cardinality({p \in Entries : pc[p] \in {"waiting", "cleared", "returned"}})

C11_Witness ==
    /\ activeRequests = 2
    /\ Cardinality(Executing) = 1
    /\ Cardinality(Suspended) = 1

\* entries whose future has been settled
Settled == {p \in Entries : settlements[p] >= 1}

\* C12: activeRequests is incremented once per entry, in the step that dequeues
\* it and before its function is invoked, and decremented once, in the step
\* that forwards its outcome, on success and on failure alike; it equals the
\* number of entries dequeued and not yet cleaned up.
C12_GateAccounting ==
    /\ [](/\ activeRequests = Len(dequeued) - Cardinality(Settled)
          /\ \A p \in Entries :
                /\ Occurrences(started, p) >= 1 => Occurrences(dequeued, p) = 1
                /\ pc[p] = "done" <=> p \in Settled)
    /\ [][activeRequests' - activeRequests =
            (Len(dequeued') - Len(dequeued))
            - Cardinality({p \in Entries : Settles(p)})]_vars

C12_Witness ==
    /\ maxConcurrent = 2
    /\ future[1].state = "rejected"
    /\ future[2].state = "resolved"
    /\ Len(dequeued) = 3
    /\ activeRequests = 1

\* a step grants clearance
Grants == Len(grants') > Len(grants)

\* C13: with requestsPerSecond >= 1 an expired timer alone lets nobody proceed:
\* every grant is made by a check that finds fewer than requestsPerSecond
\* unexpired timestamps at that instant and appends now in the same step; an
\* entry whose recheck finds the window full waits again.
C13_RecheckAfterWait ==
    [][requestsPerSecond >= 1 =>
          /\ Grants =>
                /\ Len(Prune(requestTimestamps, now)) < requestsPerSecond
                /\ requestTimestamps' = Append(Prune(requestTimestamps, now), now)
                /\ grants' = Append(grants, now)
          /\ \A p \in Suspended :
                pc'[p] # "waiting" => Grants /\ pc'[p] = "cleared"
          /\ \A p \in Suspended :
                (pc'[p] = "waiting" /\ timer'[p] # timer[p]) =>
                    /\ ~Grants
                    /\ Len(requestTimestamps') >= requestsPerSecond
                    /\ timer'[p] > now]_vars

\* entry 2 was dequeued before entry 3, both woke after the same expiry, 3 took
\* the slot and 2 waits for the timestamp of 3 to expire
C13_Witness ==
    /\ requestsPerSecond = 1
    /\ dequeued = <<1, 2, 3>>
    /\ Len(grants) = 2
    /\ pc[3] \in {"cleared", "running"}
    /\ pc[2] = "waiting"
    /\ timer[2] = grants[2] + Window
    /\ timer[3] = 0

\* a step runs a clearance check: process() passed its guard, or a timer woke
CheckStep ==
    \/ Len(dequeued') > Len(dequeued)
    \/ \E p \in Suspended : pc'[p] = "cleared" \/ timer'[p] # timer[p]

Elements(s) == {s[i] : i \in 1..Len(s)}

\* C14: a clearance check at time now discards exactly the timestamps older
\* than now - 1000 (ts < now - 1000), so a start logged exactly 1000 ms before
\* now is still in the log.
C14_PruneKeepsBoundary ==
    [][CheckStep =>
          \A ts \in Elements(requestTimestamps) :
              ts \in Elements(requestTimestamps') <=> ts >= now - Window]_vars

\* C14 as amended: the check keeps exactly the timestamps newer than
\* now - 1000 (ts > now - 1000); a start logged exactly 1000 ms before now is
\* discarded and does not count.
C14_PruneDropsBoundary ==
    [][CheckStep =>
          /\ \A ts \in Elements(requestTimestamps) :
                ts \in Elements(requestTimestamps') <=> ts > now - Window
          /\ Elements(requestTimestamps') \subseteq
                Elements(requestTimestamps) \cup {now}]_vars

C14_Witness ==
    /\ requestsPerSecond = 1
    /\ Len(grants) = 2
    /\ grants[2] = grants[1] + Window
    /\ requestTimestamps = <<grants[2]>>

\* a step sets the timer of p (line 24)
SetsTimer(p) ==
    /\ pc'[p] = "waiting"
    /\ pc[p] # "waiting" \/ timer'[p] # timer[p]

C17_WorkConserving == Len(queue) > 0 => activeRequests = maxConcurrent

\* the same for the limits the dispatcher is specified for
C17_WorkConservingPositiveLimit ==
    maxConcurrent >= 1 => C17_WorkConserving

\* C18: the timestamp log changes only in a step that runs a clearance check,
\* by pruning and by appending now on a grant; add() on a saturated
\* dispatcher, a task's settlement and its cleanup leave it as it is.
C18_LogFrame ==
    [][/\ requestTimestamps' # requestTimestamps => CheckStep
       /\ ~Grants => Elements(requestTimestamps') \subseteq Elements(requestTimestamps)
       /\ Len(requestTimestamps') <= Len(requestTimestamps) + 1
       /\ \A p \in Entries :
            (Settles(p) /\ queue = <<>>) => requestTimestamps' = requestTimestamps]_vars

C18_Witness ==
    /\ future[1].state = "rejected"
    /\ queue = <<>>
    /\ activeRequests = 0
    /\ submitted = 1
    /\ requestTimestamps = <<0>>
    /\ now = 600

\* C19: with requestsPerSecond >= 1 the log holds at most requestsPerSecond
\* timestamps, in non-decreasing order, however many tasks were submitted.
C19_LogBoundedSorted ==
    requestsPerSecond >= 1 =>
        /\ Len(requestTimestamps) <= requestsPerSecond
        /\ \A i, j \in 1..Len(requestTimestamps) :
              i < j => requestTimestamps[i] <= requestTimestamps[j]

C19_Witness ==
    /\ requestsPerSecond = 2
    /\ submitted = MaxTasks
    /\ Len(requestTimestamps) = 2
    /\ requestTimestamps[1] < requestTimestamps[2]
    /\ Suspended # {}

\* C15: with requestsPerSecond >= 1 and an advancing clock, every entry
\* suspended in waitForRateLimit is granted clearance after a finite time,
\* also while other tasks keep being submitted and compete for the slots.
C15_NoStarvation ==
    \A p \in Entries : (pc[p] = "waiting") ~> (pc[p] # "waiting")

\* the batch of show id p
BatchOf(p) == (p - 1) \div BatchSize + 1

\* C20: processMultipleShows never rejects (a failed fetch or save becomes a
\* null result) and main awaits it, so no task of a batch is submitted before
\* every task of the batch before has settled; at a batch boundary the queue
\* is empty and activeRequests = 0, and never more than one batch of entries
\* is queued or in flight.
C20_BatchSequencing ==
    /\ [](/\ \A p \in Entries :
                /\ chain[p] \in {"idle", "fetching", "saving", "saved", "null"}
                /\ (future[p].state = "rejected" /\ chain[p] # "fetching") =>
                      chain[p] = "null"
                /\ chain[p] = "saved" => future[p].state = "resolved"
          /\ \A p, q \in Entries :
                (BatchOf(p) < BatchOf(q) /\ pc[q] # "none") =>
                    /\ pc[p] = "done"
                    /\ future[p].state # "pending"
                    /\ Finished(p)
          /\ Len(queue) + activeRequests <= BatchSize)
    /\ [][submitted' # submitted => queue = <<>> /\ activeRequests = 0]_vars

C20_Witness ==
    /\ submitted = MaxTasks
    /\ BatchOf(MaxTasks) = 2
    /\ chain[1] = "null"
    /\ future[1].state = "rejected"
    /\ chain[2] = "null"
    /\ future[2].state = "resolved"
    /\ pc[MaxTasks] = "running"

====
